---- MODULE Spec2Model ----
(***************************************************************************)
(* Model of archiver.py: a command-line archiver that compresses a file or *)
(* a directory with zstd or bz2 (directories are first bundled with tar)   *)
(* and extracts such archives again.                                       *)
(*                                                                         *)
(* A file name is the sequence of its dot-separated segments, so that      *)
(* pathlib's suffix / suffixes are computed as pathlib computes them.      *)
(* The working directory is a map from names to contents; contents are     *)
(* records tagged by "kind".  The codecs and the tar container are opaque: *)
(* a compressed blob remembers what it was made from, and decompression    *)
(* gives that back only when the blob has the codec's format.              *)
(***************************************************************************)
EXTENDS Integers, Sequences, FiniteSets, TLC

VARIABLES fs, pc, args, loc, log, exit, prev, runs

vars == <<fs, pc, args, loc, log, exit, prev, runs>>

----------------------------------------------------------------------------
(* Bounds *)

\* invocations one process makes, one after the other
MaxRuns == 2
\* the largest inputs span MaxChunks whole chunks plus one byte
MaxChunks == 2

(* Program constants *)

\* chunk = 256 * 1024 (zstd_compress), step = 256 * 1024 (zstd_decompress)
chunk == 262144
Procs == {1, 2}

----------------------------------------------------------------------------
(* Names *)

F         == <<"f", "txt">>
D         == <<"d">>
AZst      == <<"a", "zst">>
ABz2      == <<"a", "bz2">>
ATarZst   == <<"a", "tar", "zst">>
ATarBz2   == <<"a", "tar", "bz2">>
ATarGz    == <<"a", "tar", "gz">>
ABTarZst  == <<"a", "b", "tar", "zst">>
Out       == <<"out">>
TmpData   == <<"tmp_data", "tar">>
TmpUnpack == <<"tmp_unpack", "tar">>
NoPath    == <<>>

Archives == {AZst, ABz2, ATarZst, ATarBz2, ATarGz, ABTarZst}
Paths    == {F, D, Out, TmpData, TmpUnpack} \cup Archives

\* PurePath.suffixes: every segment after the first, each a suffix
suffixes(p) == Tail(p)
\* PurePath.suffix: the last suffix, "" when there is none
suffix(p) == IF Len(p) > 1 THEN p[Len(p)] ELSE ""
\* os.path.basename of a name in the working directory
basename(p) == p

----------------------------------------------------------------------------
(* Contents *)

Absent  == [kind |-> "absent"]
Garbled == [kind |-> "garbled", len |-> 0]
\* all empty files are the same file
RawFile(id, n) == [kind |-> "raw", id |-> IF n = 0 THEN "" ELSE id, len |-> n]
DirOf(entries) == [kind |-> "dir", entries |-> entries]
\* the directory d holds one small file
DTree == DirOf({<<"c", RawFile("C", 1)>>})

Lens == {0, 1} \cup {k * chunk : k \in 1..MaxChunks}
               \cup {k * chunk + 1 : k \in 1..MaxChunks}
\* a compressed stream is never empty: both formats write a header.  How long
\* it is the codec decides: a reader of a compressed file sees any of these.
CompLens == Lens \ {0}

IsFile(c) == c.kind \notin {"absent", "dir"}
IsDir(c)  == c.kind = "dir"

Min(a, b) == IF a < b THEN a ELSE b

\* the pieces, in order, are [0,a1) [a1,a2) ... [ak,n): nothing skipped or repeated
RECURSIVE TilesFrom(_, _, _)
TilesFrom(s, at, n) ==
  IF s = <<>> THEN at = n
  ELSE /\ s[1][1] = at
       /\ s[1][2] > at
       /\ TilesFrom(Tail(s), s[1][2], n)
Tiles(s, n) == TilesFrom(s, 0, n)

----------------------------------------------------------------------------
(* Events of one invocation, in order *)

Ev(op, path, a, b) == [op |-> op, path |-> path, a |-> a, b |-> b]
Mutations == {"tar_build", "write", "makedirs", "unpack", "remove"}

NoArgs == [compress |-> FALSE, extract |-> FALSE, source |-> NoPath,
           target |-> NoPath, benchmark |-> FALSE, progress |-> FALSE]
NoLoc  == [plan |-> <<>>, sub |-> "", data |-> Absent, total |-> 0, i |-> 0,
           fed |-> <<>>]
NoPrev == [mode |-> "none", source |-> NoPath, target |-> NoPath,
           content |-> Absent]

----------------------------------------------------------------------------
(* calc_size *)

RECURSIVE SizeOf(_), SumSizes(_)
\* st_size of a file, the sum over the files below a directory
SizeOf(c) ==
  CASE c.kind = "absent" -> 0
    [] c.kind = "dir"    -> SumSizes(c.entries)
    [] OTHER             -> c.len
SumSizes(es) ==
  IF es = {} THEN 0
  ELSE LET e == CHOOSE x \in es : TRUE
       IN SizeOf(e[2]) + SumSizes(es \ {e})

\* len(read_bytes()) / st_size of a file, as the reader may find it
Lengths(c) == IF c.kind \in {"zst", "bz2"} THEN CompLens ELSE {SizeOf(c)}

calc_sizes(f, path) == Lengths(f[path])

----------------------------------------------------------------------------
(* main: what an invocation will do, decided from its arguments *)

St(step, src, dst) == [step |-> step, src |-> src, dst |-> dst]

\* a slip: only "both" is refused
ModeInvalid_OnlyBoth(a) == a.compress /\ a.extract

\* args.compress == args.extract
ModeInvalid(a) == a.compress = a.extract

\* a slip: one more extension is let through
ExtSupported_AlsoGz(ext) == ext \in {"zst", "bz2", "gz"}

\* ext not in [".zst", ".bz2"]
ExtSupported(ext) == ext \in {"zst", "bz2"}

\* len(p.suffixes) == 2 and p.suffixes[0] == ".tar"
is_tar(p) == Len(suffixes(p)) = 2 /\ suffixes(p)[1] = "tar"

\* ext = dst.suffix if args.compress else src.suffix
ExtOf(a) == IF a.compress THEN suffix(a.target) ELSE suffix(a.source)

CompressStep(ext) == IF ext = "zst" THEN "zstd_compress" ELSE "bz2_compress"
DecompressStep(ext) == IF ext = "zst" THEN "zstd_decompress" ELSE "bz2_decompress"

BenchmarkSteps(a) ==
  IF a.benchmark THEN <<St("benchmark", a.source, a.target)>> ELSE <<>>

\* a slip: the directory is bundled before the target's form is checked
CompressPlan_CheckAfterBuild(a, is_dir) ==
  IF is_dir
  THEN <<St("tar_build", a.source, TmpData)>> \o
       (IF ~is_tar(a.target)
        THEN <<St("exit", <<"BundleTargetRequired">>, NoPath)>>
        ELSE <<St(CompressStep(ExtOf(a)), TmpData, a.target),
               St("cleanup", TmpData, NoPath)>> \o BenchmarkSteps(a))
  ELSE <<St(CompressStep(ExtOf(a)), a.source, a.target)>> \o BenchmarkSteps(a)

\* the compress branch of main
CompressPlan(a, is_dir) ==
  IF is_dir
  THEN IF ~is_tar(a.target)
       THEN <<St("exit", <<"BundleTargetRequired">>, NoPath)>>
       ELSE <<St("tar_build", a.source, TmpData),
              St(CompressStep(ExtOf(a)), TmpData, a.target),
              St("cleanup", TmpData, NoPath)>> \o BenchmarkSteps(a)
  ELSE <<St(CompressStep(ExtOf(a)), a.source, a.target)>> \o BenchmarkSteps(a)

\* a slip: the archive is decompressed straight into the target
ExtractPlan_DirectTarget(a) ==
  IF is_tar(a.source)
  THEN <<St(DecompressStep(ExtOf(a)), a.source, a.target),
         St("tar_unpack", TmpUnpack, a.target),
         St("remove", TmpUnpack, NoPath)>> \o BenchmarkSteps(a)
  ELSE <<St(DecompressStep(ExtOf(a)), a.source, a.target)>> \o BenchmarkSteps(a)

\* the extract branch of main
ExtractPlan(a) ==
  IF is_tar(a.source)
  THEN <<St(DecompressStep(ExtOf(a)), a.source, TmpUnpack),
         St("tar_unpack", TmpUnpack, a.target),
         St("remove", TmpUnpack, NoPath)>> \o BenchmarkSteps(a)
  ELSE <<St(DecompressStep(ExtOf(a)), a.source, a.target)>> \o BenchmarkSteps(a)

MainPlan(a, is_dir) ==
  IF ModeInvalid(a) THEN <<St("exit", <<"InvalidMode">>, NoPath)>>
  ELSE IF ~ExtSupported(ExtOf(a)) THEN <<St("exit", <<"UnsupportedFormat">>, NoPath)>>
  ELSE IF a.compress THEN CompressPlan(a, is_dir)
  ELSE ExtractPlan(a)

----------------------------------------------------------------------------
(* The opaque services *)

\* a tar of a small tree is one record of 10240 bytes (tarfile pads to it)
TarLen(tree) == 10240
TarOf(name, tree) ==
  [kind |-> "tar", arcname |-> name, tree |-> tree, len |-> TarLen(tree)]

\* what a compressor that was fed the pieces `fed` of `data` produces
Compressed(codec, data, total, fed) ==
  [kind |-> codec, of |-> IF Tiles(fed, total) THEN data ELSE Garbled]

\* what a decompressor that was fed the pieces `fed` of `data` gives back
Decompressed(data, total, fed) ==
  IF total = 0 THEN RawFile("", 0)
  ELSE IF Tiles(fed, total) THEN data.of ELSE Garbled

\* read_bytes fails on a missing path and on a directory
ReadError(c) == IF c.kind = "absent" THEN "FileNotFoundError" ELSE "IsADirectoryError"

\* extractall: the archive's single top-level entry lands below the directory
Unpacked(dir, tar) ==
  DirOf({e \in dir.entries : e[1] # tar.arcname} \cup {<<tar.arcname, tar.tree>>})

----------------------------------------------------------------------------
(* Steps *)

Cur(p) == Head(loc[p].plan)
At(p, step, sub) ==
  /\ pc[p] = "run"
  /\ Cur(p).step = step
  /\ loc[p].sub = sub

Logged(p, evs) == log' = [log EXCEPT ![p] = @ \o evs]

\* the step returned: go on with the rest of main, or end with status 0
Return(p, l) ==
  /\ loc' = [loc EXCEPT ![p] = [l EXCEPT !.plan = Tail(@), !.sub = "",
                                         !.data = Absent, !.total = 0, !.i = 0,
                                         !.fed = <<>>]]
  /\ pc' = [pc EXCEPT ![p] = IF Len(l.plan) = 1 THEN "done" ELSE "run"]
  /\ exit' = [exit EXCEPT ![p] = IF Len(l.plan) = 1 THEN "ok" ELSE @]

\* an exception (or sys.exit(1)) ends the invocation where it stands
Raise(p, err) ==
  /\ pc' = [pc EXCEPT ![p] = "done"]
  /\ exit' = [exit EXCEPT ![p] = err]
  /\ loc' = loc

\* pacman_progress(done, total, label), when show_progress
Progress(p, done, total) ==
  IF args[p].progress THEN <<Ev("progress", NoPath, done, total)>> ELSE <<>>

\* what is remembered of the invocation before this one: a compression that
\* ended with status 0, with what it compressed
Summary(p) ==
  IF pc[p] = "done" /\ exit[p] = "ok" /\ args[p].compress
  THEN [mode |-> "compress", source |-> args[p].source,
        target |-> args[p].target, content |-> fs[args[p].source]]
  ELSE NoPrev

CompressPairs == {F, D} \X (Archives \cup {Out})
ExtractPairs  == (Archives \cup {F}) \X {Out, AZst}

\* the command line: one of -c / -x (or both, or neither), source, target, -b, -p
Invocations ==
  { [compress |-> c, extract |-> x, source |-> st[1], target |-> st[2],
     benchmark |-> b, progress |-> g] :
       c \in BOOLEAN, x \in BOOLEAN, b \in BOOLEAN, g \in BOOLEAN,
       st \in CompressPairs \cup ExtractPairs }

Sensible(a) ==
  \/ a.compress = a.extract
  \/ a.compress /\ <<a.source, a.target>> \in CompressPairs
  \/ a.extract /\ <<a.source, a.target>> \in ExtractPairs

\* parse_args, then main up to the first step that touches a file
Invoke(p, inputs) ==
  /\ pc[p] = "idle"
  /\ runs[p] < MaxRuns
  /\ \E a \in inputs :
        /\ args' = [args EXCEPT ![p] = a]
        /\ loc' = [loc EXCEPT ![p] =
                     [NoLoc EXCEPT !.plan = MainPlan(a, IsDir(fs[a.source]))]]
  /\ pc' = [pc EXCEPT ![p] = "run"]
  /\ runs' = [runs EXCEPT ![p] = @ + 1]
  /\ UNCHANGED <<fs, log, exit, prev>>

Start(p) == Invoke(p, {i \in Invocations : Sensible(i)})

\* the invocations that bundle: a directory in, or a .tar.<codec> archive out
Bundling(a) ==
  /\ a.compress # a.extract
  /\ ~a.benchmark
  /\ \/ a.compress /\ a.source = D /\ a.target \in {ATarZst, ATarBz2}
     \/ a.extract /\ a.source \in {ATarZst, ATarBz2} /\ a.target = Out

StartBundling(p) == Invoke(p, {i \in Invocations : Bundling(i)})

\* the process is gone; the next invocation begins with nothing but the files
ProcessEnd(p) ==
  /\ pc[p] = "done"
  /\ pc' = [pc EXCEPT ![p] = "idle"]
  /\ prev' = [prev EXCEPT ![p] = Summary(p)]
  /\ args' = [args EXCEPT ![p] = NoArgs]
  /\ loc' = [loc EXCEPT ![p] = NoLoc]
  /\ log' = [log EXCEPT ![p] = <<>>]
  /\ exit' = [exit EXCEPT ![p] = "none"]
  /\ UNCHANGED <<fs, runs>>

\* print(...); sys.exit(1)
SysExit(p) ==
  /\ At(p, "exit", "")
  /\ Raise(p, Cur(p).src[1])
  /\ UNCHANGED <<fs, args, log, prev, runs>>

tar_build(p) ==
  /\ At(p, "tar_build", "")
  /\ LET src == Cur(p).src
         dst == Cur(p).dst
     IN IF IsDir(fs[dst])
        THEN /\ Raise(p, "IsADirectoryError")
             /\ UNCHANGED <<fs, log>>
        ELSE /\ fs' = [fs EXCEPT ![dst] = TarOf(basename(src), fs[src])]
             /\ Logged(p, <<Ev("tar_build", dst, 0, 0)>>)
             /\ Return(p, loc[p])
  /\ UNCHANGED <<args, prev, runs>>

\* data = Path(src).read_bytes(), the first line of all four codec functions
ReadBytes(p, step) ==
  /\ At(p, step, "")
  /\ LET c == fs[Cur(p).src]
     IN IF IsFile(c)
        THEN /\ \E n \in Lengths(c) :
                  /\ loc' = [loc EXCEPT ![p].data = c, ![p].total = n,
                                        ![p].sub = "loop", ![p].i = 0,
                                        ![p].fed = <<>>]
                  /\ Logged(p, <<Ev("read", Cur(p).src, n, 0)>>)
             /\ UNCHANGED <<pc, exit>>
        ELSE /\ Raise(p, ReadError(c))
             /\ UNCHANGED log
  /\ UNCHANGED <<fs, args, prev, runs>>

\* Path(dst).write_bytes(out), then the rest of the function
WriteBytes(p, before, content, after) ==
  LET dst == Cur(p).dst
  IN IF IsDir(fs[dst])
     THEN /\ Raise(p, "IsADirectoryError")
          /\ Logged(p, before)
          /\ UNCHANGED fs
     ELSE /\ fs' = [fs EXCEPT ![dst] = content]
          /\ Logged(p, before \o <<Ev("write", dst, 0, 0)>> \o after)
          /\ Return(p, loc[p])

\* data[i:i + chunk] as the pair of its bounds
Slice(i, total) == <<i, Min(i + chunk, total)>>
\* a slip: the loop steps one byte too far
NextOffset_SkipsByte(i) == i + chunk + 1
\* the loop's next offset
NextOffset(i) == i + chunk
\* a slip: the offset after a full chunk is reported, whatever the piece held
DoneAfter_FullChunk(i, part) == i + chunk
\* the done value reported after a piece: i + len(part)
DoneAfter(i, part) == i + (part[2] - part[1])

zstd_compress_read(p) == ReadBytes(p, "zstd_compress")

\* one pass of: for i in range(0, total, chunk)
zstd_compress_chunk(p) ==
  /\ At(p, "zstd_compress", "loop")
  /\ LET total == loc[p].total
         i     == loc[p].i
         part  == Slice(i, total)
     IN /\ i < total
        /\ loc' = [loc EXCEPT ![p].fed = Append(@, part), ![p].i = NextOffset(i)]
        /\ Logged(p, <<Ev("feed", NoPath, part[1], part[2])>>
                      \o Progress(p, DoneAfter(i, part), total))
  /\ UNCHANGED <<fs, pc, args, exit, prev, runs>>

\* out.extend(compressor.flush()); Path(dst).write_bytes(out)
zstd_compress_finish(p) ==
  /\ At(p, "zstd_compress", "loop")
  /\ loc[p].i >= loc[p].total
  /\ WriteBytes(p, <<Ev("flush", NoPath, 0, 0)>>,
                Compressed("zst", loc[p].data, loc[p].total, loc[p].fed), <<>>)
  /\ UNCHANGED <<args, prev, runs>>

zstd_decompress_read(p) == ReadBytes(p, "zstd_decompress")

\* one pass of: while i < total; the decompressor rejects what is no zstd frame
zstd_decompress_chunk(p) ==
  /\ At(p, "zstd_decompress", "loop")
  /\ LET total == loc[p].total
         i     == loc[p].i
         block == Slice(i, total)
     IN /\ i < total
        /\ IF loc[p].data.kind # "zst"
           THEN /\ Raise(p, "CodecError")
                /\ UNCHANGED log
           ELSE /\ loc' = [loc EXCEPT ![p].fed = Append(@, block),
                                      ![p].i = NextOffset(i)]
                /\ Logged(p, <<Ev("feed", NoPath, block[1], block[2])>>
                              \o Progress(p, DoneAfter(i, block), total))
                /\ UNCHANGED <<pc, exit>>
  /\ UNCHANGED <<fs, args, prev, runs>>

zstd_decompress_finish(p) ==
  /\ At(p, "zstd_decompress", "loop")
  /\ loc[p].i >= loc[p].total
  /\ WriteBytes(p, <<>>, Decompressed(loc[p].data, loc[p].total, loc[p].fed), <<>>)
  /\ UNCHANGED <<args, prev, runs>>

bz2_compress_read(p) == ReadBytes(p, "bz2_compress")

\* the whole input as the one piece bz2.compress takes
Whole(total) == IF total = 0 THEN <<>> ELSE <<<<0, total>>>>

\* result = bz2.compress(data); write_bytes(result); pacman_progress(len, len)
bz2_compress_finish(p) ==
  /\ At(p, "bz2_compress", "loop")
  /\ LET data  == loc[p].data
         total == loc[p].total
     IN WriteBytes(p, <<Ev("feed", NoPath, 0, total), Ev("flush", NoPath, 0, 0)>>,
                   Compressed("bz2", data, total, Whole(total)),
                   Progress(p, total, total))
  /\ UNCHANGED <<args, prev, runs>>

bz2_decompress_read(p) == ReadBytes(p, "bz2_decompress")

\* result = bz2.decompress(data); write_bytes(result); pacman_progress(len, len)
bz2_decompress_finish(p) ==
  /\ At(p, "bz2_decompress", "loop")
  /\ LET data  == loc[p].data
         total == loc[p].total
     IN IF total > 0 /\ data.kind # "bz2"
        THEN /\ Raise(p, "CodecError")
             /\ UNCHANGED <<fs, log>>
        ELSE WriteBytes(p, <<Ev("feed", NoPath, 0, total)>>,
                        Decompressed(data, total, Whole(total)),
                        Progress(p, total, total))
  /\ UNCHANGED <<args, prev, runs>>

\* if is_dir and os.path.exists("tmp_data.tar")
cleanup_exists(p) ==
  /\ At(p, "cleanup", "")
  /\ IF fs[Cur(p).src].kind # "absent"
     THEN /\ loc' = [loc EXCEPT ![p].sub = "remove"]
          /\ UNCHANGED <<pc, exit>>
     ELSE Return(p, loc[p])
  /\ UNCHANGED <<fs, args, log, prev, runs>>

\* os.remove(path)
Remove(p) ==
  LET path == Cur(p).src
  IN IF IsFile(fs[path])
     THEN /\ fs' = [fs EXCEPT ![path] = Absent]
          /\ Logged(p, <<Ev("remove", path, 0, 0)>>)
          /\ Return(p, loc[p])
     ELSE /\ Raise(p, ReadError(fs[path]))
          /\ UNCHANGED <<fs, log>>

\* os.remove("tmp_data.tar")
cleanup_remove(p) ==
  /\ At(p, "cleanup", "remove")
  /\ Remove(p)
  /\ UNCHANGED <<args, prev, runs>>

\* os.makedirs(dest_dir, exist_ok=True); tarfile.open(tar_path).extractall(dest_dir)
tar_unpack(p) ==
  /\ At(p, "tar_unpack", "")
  /\ LET tar  == fs[Cur(p).src]
         dest == Cur(p).dst
         made == IF fs[dest].kind = "absent"
                 THEN <<Ev("makedirs", dest, 0, 0)>> ELSE <<>>
         dir  == IF fs[dest].kind = "absent" THEN DirOf({}) ELSE fs[dest]
     IN IF IsFile(fs[dest])
        THEN /\ Raise(p, "FileExistsError")
             /\ UNCHANGED <<fs, log>>
        ELSE IF tar.kind # "tar"
        THEN /\ Raise(p, IF IsFile(tar) THEN "BundleError" ELSE ReadError(tar))
             /\ fs' = [fs EXCEPT ![dest] = dir]
             /\ Logged(p, made)
        ELSE /\ fs' = [fs EXCEPT ![dest] = Unpacked(dir, tar)]
             /\ Logged(p, made \o <<Ev("unpack", dest, 0, 0)>>)
             /\ Return(p, loc[p])
  /\ UNCHANGED <<args, prev, runs>>

\* os.remove(temp_tar)
remove_unpack(p) ==
  /\ At(p, "remove", "")
  /\ Remove(p)
  /\ UNCHANGED <<args, prev, runs>>

\* in_size = calc_size(args.source); out_size = calc_size(args.target)
benchmark(p) ==
  /\ At(p, "benchmark", "")
  /\ \E in_size \in calc_sizes(fs, Cur(p).src),
        out_size \in calc_sizes(fs, Cur(p).dst) :
        Logged(p, <<Ev("benchmark", NoPath, in_size, out_size)>>)
  /\ Return(p, loc[p])
  /\ UNCHANGED <<fs, args, prev, runs>>

----------------------------------------------------------------------------
(* Specifications *)

Init ==
  /\ \E n \in Lens :
        fs = [q \in Paths |-> IF q = F THEN RawFile("F", n)
                              ELSE IF q = D THEN DTree ELSE Absent]
  /\ pc = [p \in Procs |-> "idle"]
  /\ args = [p \in Procs |-> NoArgs]
  /\ loc = [p \in Procs |-> NoLoc]
  /\ log = [p \in Procs |-> <<>>]
  /\ exit = [p \in Procs |-> "none"]
  /\ prev = [p \in Procs |-> NoPrev]
  /\ runs = [p \in Procs |-> 0]


Step(p) ==
  \/ Start(p)
  \/ SysExit(p)
  \/ tar_build(p)
  \/ zstd_compress_read(p)
  \/ zstd_compress_chunk(p)
  \/ zstd_compress_finish(p)
  \/ zstd_decompress_read(p)
  \/ zstd_decompress_chunk(p)
  \/ zstd_decompress_finish(p)
  \/ bz2_compress_read(p)
  \/ bz2_compress_finish(p)
  \/ bz2_decompress_read(p)
  \/ bz2_decompress_finish(p)
  \/ cleanup_exists(p)
  \/ cleanup_remove(p)
  \/ tar_unpack(p)
  \/ remove_unpack(p)
  \/ benchmark(p)
  \/ ProcessEnd(p)

Next == Step(1)

Spec == Init /\ [][Next]_vars

\* two invocations at once in one working directory, their steps interleaved
StepBundling(p) ==
  \/ StartBundling(p)
  \/ tar_build(p)
  \/ zstd_compress_read(p)
  \/ zstd_compress_chunk(p)
  \/ zstd_compress_finish(p)
  \/ zstd_decompress_read(p)
  \/ zstd_decompress_chunk(p)
  \/ zstd_decompress_finish(p)
  \/ bz2_compress_read(p)
  \/ bz2_compress_finish(p)
  \/ bz2_decompress_read(p)
  \/ bz2_decompress_finish(p)
  \/ cleanup_exists(p)
  \/ cleanup_remove(p)
  \/ tar_unpack(p)
  \/ remove_unpack(p)
  \/ ProcessEnd(p)

NextConc == \E p \in Procs : StepBundling(p)

InitConc == Init /\ fs[F] = RawFile("F", 1)

SpecConc == InitConc /\ [][NextConc]_vars

----------------------------------------------------------------------------
(* Reading the events of an invocation *)

Select(lg, ops) == SelectSeq(lg, LAMBDA e : e.op \in ops)
\* where in lg the events with these ops stand
Places(lg, ops) == {k \in 1..Len(lg) : lg[k].op \in ops}
IsPrefix(s, t) == Len(s) <= Len(t) /\ s = SubSeq(t, 1, Len(s))
OneMode(a) == (a.compress /\ ~a.extract) \/ (a.extract /\ ~a.compress)
Codecs == {"zst", "bz2"}
\* the last dot-separated piece of a name that has a dot
FinalExtension(name) == IF Len(name) > 1 THEN name[Len(name)] ELSE ""
\* the compressed artifact: the target when compressing, else the source
Artifact(a) == IF a.compress THEN a.target ELSE a.source
\* the only step left is the exit with this diagnostic
Failing(p, err) ==
  /\ pc[p] = "run" => loc[p].plan = <<St("exit", <<err>>, NoPath)>>
  /\ pc[p] = "done" => exit[p] = err

----------------------------------------------------------------------------
\* C3: with both or neither of -c / -x the invocation fails with the mode
\* diagnostic, whatever the paths, and no file has been created, written or
\* removed; with exactly one of them the mode check does not fail.
C3_ModeExclusivity ==
  \A p \in Procs :
    pc[p] # "idle" =>
      IF args[p].compress = args[p].extract
      THEN /\ Failing(p, "InvalidMode")
           /\ Places(log[p], Mutations) = {}
      ELSE /\ exit[p] # "InvalidMode"
           /\ \A k \in 1..Len(loc[p].plan) :
                 loc[p].plan[k] # St("exit", <<"InvalidMode">>, NoPath)

C3_Witness ==
  \E p \in Procs :
    /\ pc[p] = "done"
    /\ args[p].compress /\ args[p].extract
    /\ args[p].source = D /\ args[p].target = ATarZst
    /\ exit[p] = "InvalidMode"

----------------------------------------------------------------------------
\* C4: with exactly one mode, when the final extension of the compressed
\* artifact (target when compressing, source when extracting) is neither zst
\* nor bz2 the invocation fails with the unsupported-format diagnostic (also
\* for x.tar.gz, also for a directory source); when it is one of the two, that
\* diagnostic is never given.
C4_ExtensionGating ==
  \A p \in Procs :
    (pc[p] # "idle" /\ OneMode(args[p])) =>
      IF FinalExtension(Artifact(args[p])) \notin Codecs
      THEN Failing(p, "UnsupportedFormat")
      ELSE /\ exit[p] # "UnsupportedFormat"
           /\ \A k \in 1..Len(loc[p].plan) :
                 loc[p].plan[k] # St("exit", <<"UnsupportedFormat">>, NoPath)

C4_Witness ==
  \E p \in Procs :
    /\ pc[p] = "done"
    /\ args[p].compress /\ ~args[p].extract
    /\ args[p].source = D /\ args[p].target = ATarGz
    /\ exit[p] = "UnsupportedFormat"

----------------------------------------------------------------------------
\* the transient files this invocation has created so far
Created(p) ==
  {log[p][k].path : k \in Places(log[p], {"tar_build", "write"})}
    \cap {TmpData, TmpUnpack}

\* C1: when an invocation that created a transient tar file has ended, with
\* status 0 or with a failure of a later step, that file no longer exists.
C1_CleanupInvariant ==
  \A p \in Procs :
    pc[p] = "done" => \A t \in Created(p) : fs[t].kind = "absent"

----------------------------------------------------------------------------
\* what extracting must leave at the target when `was` had been compressed
Restored(now, was, name) ==
  IF was.kind = "dir"
  THEN now.kind = "dir" /\ <<name, was>> \in now.entries
  ELSE now = was

\* C2: after compress(D -> archive) has succeeded, extract(archive -> out)
\* succeeds and out holds D, for a file and for a directory, for both codecs,
\* for every accepted target name and all flag combinations.
C2_RoundTrip ==
  \A p \in Procs :
    ( /\ pc[p] = "done"
      /\ args[p].extract /\ ~args[p].compress
      /\ prev[p].mode = "compress"
      /\ args[p].source = prev[p].target ) =>
        /\ exit[p] = "ok"
        /\ Restored(fs[args[p].target], prev[p].content, prev[p].source)

----------------------------------------------------------------------------
EndsInTarCodec(name) ==
  /\ Len(name) >= 3
  /\ name[Len(name) - 1] = "tar"
  /\ name[Len(name)] \in Codecs

\* C5: compressing a directory fails with the bundle-target diagnostic when
\* the target (with a codec extension) has not the .tar.<codec> form, and goes
\* on to bundling for every target whose name ends in .tar.<codec>; compressing
\* what is no directory never gives that diagnostic.
C5_DirectoryTarget ==
  \A p \in Procs :
    ( /\ pc[p] # "idle"
      /\ args[p].compress /\ ~args[p].extract
      /\ FinalExtension(args[p].target) \in Codecs ) =>
        IF fs[args[p].source].kind # "dir"
        THEN exit[p] # "BundleTargetRequired"
        ELSE IF EndsInTarCodec(args[p].target)
        THEN exit[p] # "BundleTargetRequired"
        ELSE Failing(p, "BundleTargetRequired")

----------------------------------------------------------------------------
\* C6: an invocation that ends with the unsupported-format or the
\* bundle-target diagnostic has created, written and removed nothing.
C6_FailFast ==
  \A p \in Procs :
    exit[p] \in {"UnsupportedFormat", "BundleTargetRequired"} =>
      Places(log[p], Mutations) = {}

C6_Witness ==
  \E p \in Procs :
    /\ pc[p] = "done"
    /\ exit[p] = "BundleTargetRequired"
    /\ args[p].source = D /\ args[p].target = AZst

----------------------------------------------------------------------------
(* One codec pass: every invocation makes at most one *)

HasRead(p)  == Places(log[p], {"read"}) # {}
\* the pass has written its output
PassDone(p) == Places(log[p], {"write"}) # {}
\* len(data) of the pass
InputLength(p) == log[p][CHOOSE k \in Places(log[p], {"read"}) : TRUE].a
ProgressCalls(p) == Select(log[p], {"progress"})
Feeds(p) == Select(log[p], {"feed"})
\* where the k-th event with these ops stands
NthPlace(lg, ops, k) ==
  CHOOSE j \in Places(lg, ops) :
    Cardinality({i \in Places(lg, ops) : i <= j}) = k

\* the calls so far carry the input length as total and never go back
Monotone(calls, n) ==
  /\ \A k \in 1..Len(calls) : calls[k].b = n
  /\ \A k \in 1..(Len(calls) - 1) : calls[k].a <= calls[k + 1].a

\* the last call, and only that one, has done = total
EndsAtTotal(calls, n) ==
  /\ calls # <<>>
  /\ calls[Len(calls)].a = n
  /\ Cardinality({k \in 1..Len(calls) : calls[k].a = n}) = 1

\* C7 as claimed: in a codec pass with progress, for every input length, 0
\* included, the calls to the reporter carry total = input length and
\* non-decreasing done values, the last call has done = total, and done
\* reaches total exactly once.
C7_ProgressMonotone ==
  \A p \in Procs :
    (args[p].progress /\ HasRead(p)) =>
      /\ Monotone(ProgressCalls(p), InputLength(p))
      /\ PassDone(p) => EndsAtTotal(ProgressCalls(p), InputLength(p))

\* C7 as amended: the same for every input length above 0, and for the bz2
\* passes on an empty input (one call, done = total = 0); a zstd pass on an
\* empty input makes no call to the reporter at all.
C7_ProgressMonotoneAmended ==
  \A p \in Procs :
    (args[p].progress /\ HasRead(p)) =>
      /\ Monotone(ProgressCalls(p), InputLength(p))
      /\ PassDone(p) =>
            IF InputLength(p) = 0 /\ FinalExtension(Artifact(args[p])) = "zst"
            THEN ProgressCalls(p) = <<>>
            ELSE EndsAtTotal(ProgressCalls(p), InputLength(p))

C7_Witness ==
  \E p \in Procs :
    /\ pc[p] = "done" /\ exit[p] = "ok"
    /\ args[p].progress /\ args[p].extract
    /\ FinalExtension(args[p].source) = "zst"
    /\ InputLength(p) = chunk + 1
    /\ Len(ProgressCalls(p)) = 2

----------------------------------------------------------------------------
\* the events that change a file other than creating the target directory
Effects(p) == Select(log[p], {"tar_build", "write", "unpack", "remove"})
\* exactly two suffixes, the outer one the bundle marker: name.tar.<ext>
DoubleTarSuffix(name) == Len(name) = 3 /\ name[2] = "tar"
BundledExtract(a) ==
  <<Ev("write", TmpUnpack, 0, 0), Ev("unpack", a.target, 0, 0),
    Ev("remove", TmpUnpack, 0, 0)>>
PlainExtract(a) == <<Ev("write", a.target, 0, 0)>>

\* C9: an extraction bundles exactly when the source is name.tar.<codec>;
\* then it decompresses into the transient file, never into the target,
\* unbundles into the target only after that, and removes the transient file
\* only after unbundling; otherwise it decompresses into the target and
\* creates no transient file.
C9_ExtractSequencing ==
  \A p \in Procs :
    ( /\ pc[p] # "idle"
      /\ args[p].extract /\ ~args[p].compress
      /\ FinalExtension(args[p].source) \in Codecs ) =>
        LET want == IF DoubleTarSuffix(args[p].source)
                    THEN BundledExtract(args[p]) ELSE PlainExtract(args[p])
        IN /\ IsPrefix(Effects(p), want)
           /\ exit[p] = "ok" => Effects(p) = want
           /\ \A k \in Places(log[p], {"makedirs"}) :
                 /\ DoubleTarSuffix(args[p].source)
                 /\ \E j \in 1..(k - 1) : log[p][j] = Ev("write", TmpUnpack, 0, 0)

C9_Witness ==
  \E p \in Procs :
    /\ pc[p] = "done" /\ exit[p] = "ok"
    /\ args[p].extract /\ ~args[p].compress
    /\ args[p].source = ATarBz2
    /\ Effects(p) = BundledExtract(args[p])
    /\ fs[TmpUnpack].kind = "absent"
    /\ fs[args[p].target].kind = "dir"

----------------------------------------------------------------------------
\* the pieces follow one another from 0 to n
Consecutive(feeds, n) ==
  IF feeds = <<>> THEN n = 0
  ELSE /\ feeds[1].a = 0
       /\ \A k \in 1..(Len(feeds) - 1) : feeds[k + 1].a = feeds[k].b
       /\ feeds[Len(feeds)].b = n

\* one flush after the last piece, one write after the flush, and with
\* progress one report (consumed so far, total) after each piece
FlushWriteReport(p) ==
  LET lg    == log[p]
      n     == InputLength(p)
      feeds == Feeds(p)
      calls == ProgressCalls(p)
  IN /\ Cardinality(Places(lg, {"flush"})) = 1
     /\ Cardinality(Places(lg, {"write"})) = 1
     /\ \A f \in Places(lg, {"feed"}) : f < NthPlace(lg, {"flush"}, 1)
     /\ NthPlace(lg, {"flush"}, 1) < NthPlace(lg, {"write"}, 1)
     /\ IF args[p].progress
        THEN /\ Len(calls) = Len(feeds)
             /\ \A k \in 1..Len(calls) :
                   /\ calls[k].a = feeds[k].b
                   /\ calls[k].b = n
                   /\ NthPlace(lg, {"feed"}, k) < NthPlace(lg, {"progress"}, k)
        ELSE calls = <<>>

CompressPassDone(p) ==
  /\ args[p].compress /\ ~args[p].extract
  /\ PassDone(p)

\* C10 as claimed: a compression pass of either codec feeds the input in
\* consecutive pieces of at most 262144 bytes that make up the input, reports
\* after each piece when progress is on, flushes once after the last piece
\* and writes the output once, after the flush.
C10_ChunkedCompression ==
  \A p \in Procs :
    CompressPassDone(p) =>
      /\ Consecutive(Feeds(p), InputLength(p))
      /\ \A k \in 1..Len(Feeds(p)) : Feeds(p)[k].b - Feeds(p)[k].a <= chunk
      /\ FlushWriteReport(p)

\* C10 as amended: the same, with the bound of 262144 bytes on a piece for the
\* zstd pass only; the bz2 pass feeds the whole input as a single piece.
C10_ChunkedCompressionAmended ==
  \A p \in Procs :
    CompressPassDone(p) =>
      /\ Consecutive(Feeds(p), InputLength(p))
      /\ IF FinalExtension(args[p].target) = "zst"
         THEN \A k \in 1..Len(Feeds(p)) : Feeds(p)[k].b - Feeds(p)[k].a <= chunk
         ELSE Len(Feeds(p)) = 1
      /\ FlushWriteReport(p)

C10_Witness ==
  \E p \in Procs :
    /\ pc[p] = "done" /\ exit[p] = "ok"
    /\ CompressPassDone(p)
    /\ args[p].progress
    /\ FinalExtension(args[p].target) = "zst"
    /\ InputLength(p) = chunk + 1
    /\ Len(Feeds(p)) = 2

----------------------------------------------------------------------------
\* both invocations are running and hold the same transient file
SharedTransient(p, q) ==
  /\ pc[p] = "run" /\ pc[q] = "run"
  /\ Places(log[p], {"remove"}) = {} /\ Places(log[q], {"remove"}) = {}
  /\ Created(p) \cap Created(q) # {}

\* C8: two bundling invocations interleaved in one working directory do not
\* touch each other's transient file, and each ends as it would alone: a
\* compression of the directory with status 0, and so does an extraction that
\* could read its archive.
C8_TransientIsolation ==
  /\ \A p \in Procs : \A q \in Procs \ {p} : ~SharedTransient(p, q)
  /\ \A p \in Procs :
       (pc[p] = "done" /\ (args[p].compress \/ HasRead(p))) => exit[p] = "ok"

====
